---- MODULE Spec2Model ----
(***************************************************************************)
(* Model of src/server.js: an Express server with four routes             *)
(*   POST /send-email, GET /api/events, GET /api/events/:email,           *)
(*   POST /events                                                         *)
(* in front of a Firestore collection "events" and a Mailgun client.      *)
(*                                                                         *)
(* A request runs its handler synchronously up to the first external      *)
(* call; the external service then settles the call, and the handler's    *)
(* continuation (the code after `await`, or the Mailgun callback) writes  *)
(* the response.  Several requests are in flight at once.                 *)
(***************************************************************************)
EXTENDS Integers, Sequences, FiniteSets, TLC

VARIABLES
    authorizedEmails,   \* the module-level allow-list (server.js:71)
    events,             \* the Firestore collection "events", in creation order
    sent,               \* the messages handed to mailgun.messages().send
    accepted,           \* number of /send-email requests received with an
                        \* allow-listed email and a truthy message
    requests            \* the connections being served: Reqs -> request record

vars == <<authorizedEmails, events, sent, accepted, requests>>

----------------------------------------------------------------------------
(* Bounds *)

MaxDocs == 2
MaxSends == 2

----------------------------------------------------------------------------
(* JavaScript values, as they arrive in a JSON body.  A value is a record  *)
(* of its type and its string form; a field absent from the body reads as *)
(* undefined.                                                             *)

Undefined == [t |-> "undefined", v |-> "undefined"]
Null == [t |-> "null", v |-> "null"]
Str(s) == [t |-> "string", v |-> s]
Num(s) == [t |-> "number", v |-> s]
Bool(s) == [t |-> "boolean", v |-> s]

\* ToBoolean, as applied by `!x` and `x || y`.
Truthy(x) ==
    ~ \/ x.t \in {"undefined", "null"}
      \/ x.t = "boolean" /\ x.v = "false"
      \/ x.t = "number" /\ x.v \in {"0", "NaN"}
      \/ x.t = "string" /\ x.v = ""

\* The connections the server handles concurrently.
Reqs == {"r1", "r2"}

\* A connection slot with no request on it.
Idle == [kind |-> "none", pc |-> "idle", nresp |-> 0]

----------------------------------------------------------------------------
(* The inputs the clients send. *)

Emails ==
    {Undefined, Str(""), Str("wangjun6666666633@gmail.com"),
     Str("kche0224@student.monash.edu"), Str("KCHE0224@student.monash.edu"),
     Str("not-listed@x.com")}

Messages == {Undefined, Str(""), Str("hi"), Str("see you at 10")}

SendEmailBodies == [email : Emails, message : Messages]

\* Values of the fields of a POST /events body.
Title == Str("Talk")
Start == Str("2024-01-01T10:00")
StartMillis == Num("1704103200000")
RemindAt == Str("2024-01-01T09:00")
Creators == {Str("a@x.com"), Str("A@x.com")}
Notes == {Undefined, Num("0"), Str("bring slides")}

\* Bodies with every required field present and truthy.
CompleteBodies ==
    [title : {Title}, start : {Start}, remindAt : {RemindAt},
     createdBy : Creators, notes : Notes]
        \cup {[title |-> Title, start |-> StartMillis, remindAt |-> RemindAt,
               createdBy |-> Str("a@x.com"), notes |-> Undefined]}

\* Bodies with one required field absent or present with a falsy value, and
\* the empty body.
DefectiveBodies ==
    LET base == [title |-> Title, start |-> Start, remindAt |-> RemindAt,
                 createdBy |-> Str("a@x.com"), notes |-> Undefined]
    IN  {[base EXCEPT ![f] = Undefined] :
            f \in {"title", "start", "remindAt", "createdBy"}}
        \cup {[base EXCEPT !.title = Str("")],
              [base EXCEPT !.start = Num("0")],
              [base EXCEPT !.remindAt = Bool("false")],
              [base EXCEPT !.createdBy = Null]}
        \cup {[title |-> Undefined, start |-> Undefined, remindAt |-> Undefined,
               createdBy |-> Undefined, notes |-> Undefined]}

EventBodies == CompleteBodies \cup DefectiveBodies

\* Values of the :email path parameter (always a non-empty string).
EmailParams == {Str("a@x.com"), Str("A@x.com")}

\* The errors the external services report.
StoreErrors == {[message |-> "DEADLINE_EXCEEDED"]}
ProviderErrors == {[message |-> "Forbidden"]}
ProviderBodies == {[id |-> "<msg@mailgun>", message |-> "Queued. Thank you."]}

----------------------------------------------------------------------------
(* Startup wiring *)

\* process.env.MAILGUN_DOMAIN
domain == "sandbox.mailgun.org"

AllowList ==
    <<Str("wangjun6666666633@gmail.com"), Str("kche0224@student.monash.edu")>>

\* The ids Firestore assigns: one fresh id per created document.
AutoIds == <<Str("kA1x"), Str("mB2y"), Str("nC3z"), Str("pD4w"), Str("qE5v")>>

Init ==
    /\ authorizedEmails = AllowList
    /\ events = <<>>
    /\ sent = <<>>
    /\ accepted = 0
    /\ requests = [r \in Reqs |-> Idle]

----------------------------------------------------------------------------
(* Helpers of the handlers *)

\* String.prototype.toLowerCase on the addresses in use.
ToLowerCase(x) ==
    IF x = Str("KCHE0224@student.monash.edu")
    THEN Str("kche0224@student.monash.edu")
    ELSE IF x = Str("A@x.com") THEN Str("a@x.com") ELSE x

\* Variant: membership that ignores the case of the letters.
IncludesIgnoringCase(arr, x) ==
    \E i \in DOMAIN arr : ToLowerCase(arr[i]) = ToLowerCase(x)

\* Array.prototype.includes: strict (SameValueZero) membership.
Includes(arr, x) == \E i \in DOMAIN arr : arr[i] = x

\* res.status(status).json(json): writes the response and ends the request.
Respond(req, status, json) ==
    [req EXCEPT !.pc = "done", !.nresp = @ + 1]
        @@ [resp |-> [status |-> status, json |-> json]]

\* A slot on which a new request can arrive.
Free(r) == requests[r].pc \in {"idle", "done"}

\* Variant: only the email is validated.
SendEmailMissingEmailOnly(body) == ~Truthy(body.email)

\* if (!email || !message)
SendEmailMissing(body) == ~Truthy(body.email) \/ ~Truthy(body.message)

\* The template literal of the 403 error.
NotAuthorizedText(email) ==
    <<"The email \"", email.v, "\" is not authorized in the Mailgun Sandbox.">>

\* const data = { from, to, subject, text }
MailData(body) ==
    [from |-> <<"Mailgun Sandbox <postmaster@", domain, ">">>,
     to |-> body.email,
     subject |-> "Library Contact Message",
     text |-> body.message]

\* Variant: createdBy is not validated.
EventMissingNoCreator(body) ==
    \/ ~Truthy(body.title)
    \/ ~Truthy(body.start)
    \/ ~Truthy(body.remindAt)

\* Variant: a field counts as missing only when it is absent from the body.
EventMissingAbsentOnly(body) ==
    \/ body.title = Undefined
    \/ body.start = Undefined
    \/ body.remindAt = Undefined
    \/ body.createdBy = Undefined

\* if (!title || !start || !remindAt || !createdBy)
EventMissing(body) ==
    \/ ~Truthy(body.title)
    \/ ~Truthy(body.start)
    \/ ~Truthy(body.remindAt)
    \/ ~Truthy(body.createdBy)

\* Variant: notes is stored as received, without the default.
NewEventRawNotes(body) ==
    [title |-> body.title,
     start |-> body.start,
     remindAt |-> body.remindAt,
     createdBy |-> body.createdBy,
     notes |-> body.notes]

\* const newEvent = { title, start, remindAt, createdBy, notes: notes || "" }
NewEvent(body) ==
    [title |-> body.title,
     start |-> body.start,
     remindAt |-> body.remindAt,
     createdBy |-> body.createdBy,
     notes |-> IF Truthy(body.notes) THEN body.notes ELSE Str("")]

\* { id: doc.id, ...doc.data() }: the data's fields are spread over the id.
MergeDoc(doc) ==
    [f \in {"id"} \cup DOMAIN doc.data |->
        IF f \in DOMAIN doc.data THEN doc.data[f] ELSE doc.id]

\* snapshot.forEach(doc => events.push(...)), the order left to the store.
Collect(docs) == {MergeDoc(d) : d \in docs}

\* db.collection("events").get(): the documents of the collection.
AllDocs(coll) == {coll[i] : i \in DOMAIN coll}

\* Variant: the query matches the creator whatever the case of its letters.
WhereCreatedByIgnoringCase(coll, email) ==
    {coll[i] : i \in {j \in DOMAIN coll :
        ToLowerCase(coll[j].data.createdBy) = ToLowerCase(email)}}

\* .where("createdBy", "==", email): equality of type and value.
WhereCreatedBy(coll, email) ==
    {d \in AllDocs(coll) : d.data.createdBy = email}

\* Variant: a document with the same title and creator is replaced (upsert).
AddDocUpsert(coll, data) ==
    IF \E i \in DOMAIN coll :
          /\ coll[i].data.title = data.title
          /\ coll[i].data.createdBy = data.createdBy
    THEN [i \in DOMAIN coll |->
            IF /\ coll[i].data.title = data.title
               /\ coll[i].data.createdBy = data.createdBy
            THEN [id |-> coll[i].id, data |-> data]
            ELSE coll[i]]
    ELSE Append(coll, [id |-> AutoIds[Len(coll) + 1], data |-> data])

\* Variant: an event equal to a stored one is not stored again (uniqueness).
AddDocUnique(coll, data) ==
    IF \E i \in DOMAIN coll : coll[i].data = data
    THEN coll
    ELSE Append(coll, [id |-> AutoIds[Len(coll) + 1], data |-> data])

\* db.collection("events").add(newEvent): a new document under a fresh id.
AddDoc(coll, data) == Append(coll, [id |-> AutoIds[Len(coll) + 1], data |-> data])

----------------------------------------------------------------------------
(* POST /send-email *)

\* A body with one of the two allow-listed addresses and a non-empty message
\* text: the requests that `accepted` counts.
Wanted(body) ==
    /\ body.email \in {Str("wangjun6666666633@gmail.com"),
                       Str("kche0224@student.monash.edu")}
    /\ body.message.t = "string"
    /\ body.message.v # ""

\* The handler up to the call of mailgun.messages().send.
SendEmail(r, body) ==
    /\ Free(r)
    /\ LET req == [kind |-> "sendEmail", pc |-> "pending", nresp |-> 0,
                   body |-> body]
       IN  /\ accepted' = IF Wanted(body) THEN accepted + 1 ELSE accepted
           /\ IF SendEmailMissing(body)
              THEN /\ requests' = [requests EXCEPT ![r] =
                          Respond(req, 400,
                              [success |-> FALSE, error |-> "Missing fields"])]
                   /\ UNCHANGED sent
              ELSE IF ~Includes(authorizedEmails, body.email)
              THEN /\ requests' = [requests EXCEPT ![r] =
                          Respond(req, 403,
                              [success |-> FALSE,
                               error |-> NotAuthorizedText(body.email)])]
                   /\ UNCHANGED sent
              ELSE /\ Len(sent) < MaxSends
                   /\ sent' = Append(sent, MailData(body))
                   /\ requests' = [requests EXCEPT ![r] = req]
    /\ UNCHANGED <<authorizedEmails, events>>

\* Variant: a failed send is attempted again instead of being answered.
SendCallbackRetry(r, ext) ==
    /\ requests[r].kind = "sendEmail"
    /\ requests[r].pc = "pending"
    /\ IF ~ext.ok
       THEN /\ sent' = Append(sent, MailData(requests[r].body))
            /\ UNCHANGED requests
       ELSE /\ requests' = [requests EXCEPT ![r] =
                  Respond(requests[r] @@ [ext |-> ext], 200,
                      [success |-> TRUE, body |-> ext.body])]
            /\ UNCHANGED sent
    /\ UNCHANGED <<authorizedEmails, events, accepted>>

\* The callback given to send, called with (error, body) once the provider
\* has answered.
SendCallback(r, ext) ==
    /\ requests[r].kind = "sendEmail"
    /\ requests[r].pc = "pending"
    /\ LET req == requests[r] @@ [ext |-> ext]
       IN  requests' = [requests EXCEPT ![r] =
               IF ~ext.ok
               THEN Respond(req, 500,
                        [success |-> FALSE, error |-> ext.error.message])
               ELSE Respond(req, 200, [success |-> TRUE, body |-> ext.body])]
    /\ UNCHANGED <<authorizedEmails, events, sent, accepted>>

----------------------------------------------------------------------------
(* GET /api/events *)

\* The handler up to `await db.collection("events").get()`.
GetEvents(r) ==
    /\ Free(r)
    /\ requests' = [requests EXCEPT ![r] =
            [kind |-> "getEvents", pc |-> "pending", nresp |-> 0]]
    /\ UNCHANGED <<authorizedEmails, events, sent, accepted>>

\* The store serves the read and the handler continues after the await.
GetEventsResolve(r) ==
    /\ requests[r].kind = "getEvents"
    /\ requests[r].pc = "pending"
    /\ LET snapshot == [ok |-> TRUE, docs |-> AllDocs(events),
                        readTime |-> Len(events)]
           req == requests[r] @@ [ext |-> snapshot]
       IN  requests' = [requests EXCEPT ![r] =
               Respond(req, 200,
                   [success |-> TRUE, events |-> Collect(snapshot.docs)])]
    /\ UNCHANGED <<authorizedEmails, events, sent, accepted>>

\* The read fails and the handler's catch runs.
GetEventsReject(r, err) ==
    /\ requests[r].kind = "getEvents"
    /\ requests[r].pc = "pending"
    /\ LET req == requests[r] @@ [ext |-> [ok |-> FALSE, error |-> err]]
       IN  requests' = [requests EXCEPT ![r] =
               Respond(req, 500, [success |-> FALSE, error |-> err.message])]
    /\ UNCHANGED <<authorizedEmails, events, sent, accepted>>

----------------------------------------------------------------------------
(* GET /api/events/:email *)

\* The handler up to `await db.collection("events").where(...).get()`.
GetEventsByEmail(r, email) ==
    /\ Free(r)
    /\ requests' = [requests EXCEPT ![r] =
            [kind |-> "getEventsByEmail", pc |-> "pending", nresp |-> 0,
             email |-> email]]
    /\ UNCHANGED <<authorizedEmails, events, sent, accepted>>

\* The store serves the query and the handler continues after the await.
GetEventsByEmailResolve(r) ==
    /\ requests[r].kind = "getEventsByEmail"
    /\ requests[r].pc = "pending"
    /\ LET snapshot == [ok |-> TRUE,
                        docs |-> WhereCreatedBy(events, requests[r].email),
                        readTime |-> Len(events)]
           req == requests[r] @@ [ext |-> snapshot]
       IN  requests' = [requests EXCEPT ![r] =
               Respond(req, 200,
                   [success |-> TRUE, events |-> Collect(snapshot.docs)])]
    /\ UNCHANGED <<authorizedEmails, events, sent, accepted>>

\* The query fails and the handler's catch runs.
GetEventsByEmailReject(r, err) ==
    /\ requests[r].kind = "getEventsByEmail"
    /\ requests[r].pc = "pending"
    /\ LET req == requests[r] @@ [ext |-> [ok |-> FALSE, error |-> err]]
       IN  requests' = [requests EXCEPT ![r] =
               Respond(req, 500, [success |-> FALSE, error |-> err.message])]
    /\ UNCHANGED <<authorizedEmails, events, sent, accepted>>

----------------------------------------------------------------------------
(* POST /events *)

\* The handler up to `await db.collection("events").add(newEvent)`.
PostEvent(r, body) ==
    /\ Free(r)
    /\ LET req == [kind |-> "postEvent", pc |-> "pending", nresp |-> 0,
                   body |-> body]
       IN  requests' = [requests EXCEPT ![r] =
               IF EventMissing(body)
               THEN Respond(req, 400,
                        [success |-> FALSE, error |-> "Missing required fields"])
               ELSE req @@ [newEvent |-> NewEvent(body)]]
    /\ UNCHANGED <<authorizedEmails, events, sent, accepted>>

\* The store creates the document and the handler continues after the await.
PostEventResolve(r) ==
    /\ requests[r].kind = "postEvent"
    /\ requests[r].pc = "pending"
    /\ Len(events) < MaxDocs
    /\ events' = AddDoc(events, requests[r].newEvent)
    /\ LET docRef == [ok |-> TRUE, id |-> events'[Len(events')].id]
           req == requests[r] @@ [ext |-> docRef]
       IN  requests' = [requests EXCEPT ![r] =
               Respond(req, 200,
                   [success |-> TRUE, id |-> docRef.id, event |-> req.newEvent])]
    /\ UNCHANGED <<authorizedEmails, sent, accepted>>

\* Variant: the catch logs the error and sends nothing.
PostEventRejectSilent(r, err) ==
    /\ requests[r].kind = "postEvent"
    /\ requests[r].pc = "pending"
    /\ requests' = [requests EXCEPT ![r] =
            [requests[r] EXCEPT !.pc = "done"]
                @@ [ext |-> [ok |-> FALSE, error |-> err]]]
    /\ UNCHANGED <<authorizedEmails, events, sent, accepted>>

\* The insertion fails and the handler's catch runs.
PostEventReject(r, err) ==
    /\ requests[r].kind = "postEvent"
    /\ requests[r].pc = "pending"
    /\ LET req == requests[r] @@ [ext |-> [ok |-> FALSE, error |-> err]]
       IN  requests' = [requests EXCEPT ![r] =
               Respond(req, 500, [success |-> FALSE, error |-> err.message])]
    /\ UNCHANGED <<authorizedEmails, events, sent, accepted>>

----------------------------------------------------------------------------

\* The mail route, under every body of SendEmailBodies.
NextEmail ==
    \/ \E r \in Reqs, body \in SendEmailBodies : SendEmail(r, body)
    \/ \E r \in Reqs, e \in ProviderErrors :
          SendCallback(r, [ok |-> FALSE, error |-> e])
    \/ \E r \in Reqs, b \in ProviderBodies :
          SendCallback(r, [ok |-> TRUE, body |-> b])

\* The three event routes, under every body of EventBodies.
NextEvents ==
    \/ \E r \in Reqs : GetEvents(r)
    \/ \E r \in Reqs : GetEventsResolve(r)
    \/ \E r \in Reqs, err \in StoreErrors : GetEventsReject(r, err)
    \/ \E r \in Reqs, email \in EmailParams : GetEventsByEmail(r, email)
    \/ \E r \in Reqs : GetEventsByEmailResolve(r)
    \/ \E r \in Reqs, err \in StoreErrors : GetEventsByEmailReject(r, err)
    \/ \E r \in Reqs, body \in EventBodies : PostEvent(r, body)
    \/ \E r \in Reqs : PostEventResolve(r)
    \/ \E r \in Reqs, err \in StoreErrors : PostEventReject(r, err)

\* The bodies sent when the four routes are served side by side.
MixedSendEmailBodies ==
    {[email |-> Str("kche0224@student.monash.edu"), message |-> Str("hi")],
     [email |-> Str("not-listed@x.com"), message |-> Str("hi")],
     [email |-> Str("kche0224@student.monash.edu"), message |-> Undefined]}

MixedEventBodies ==
    {b \in CompleteBodies :
        b.notes \in {Undefined, Str("bring slides")} /\ b.start = Start}
        \cup {b \in DefectiveBodies : b.title = Undefined}

\* The four routes served side by side.
Next ==
    \/ \E r \in Reqs, body \in MixedSendEmailBodies : SendEmail(r, body)
    \/ \E r \in Reqs, e \in ProviderErrors :
          SendCallback(r, [ok |-> FALSE, error |-> e])
    \/ \E r \in Reqs, b \in ProviderBodies :
          SendCallback(r, [ok |-> TRUE, body |-> b])
    \/ \E r \in Reqs : GetEvents(r)
    \/ \E r \in Reqs : GetEventsResolve(r)
    \/ \E r \in Reqs, err \in StoreErrors : GetEventsReject(r, err)
    \/ \E r \in Reqs, email \in EmailParams : GetEventsByEmail(r, email)
    \/ \E r \in Reqs : GetEventsByEmailResolve(r)
    \/ \E r \in Reqs, err \in StoreErrors : GetEventsByEmailReject(r, err)
    \/ \E r \in Reqs, body \in MixedEventBodies : PostEvent(r, body)
    \/ \E r \in Reqs : PostEventResolve(r)
    \/ \E r \in Reqs, err \in StoreErrors : PostEventReject(r, err)

Spec == Init /\ [][Next]_vars

SpecEmail == Init /\ [][NextEmail]_vars

SpecEvents == Init /\ [][NextEvents]_vars

----------------------------------------------------------------------------
(* Vocabulary of the properties *)

\* A request arrives on connection r in this step.
Arrives(r) == Free(r) /\ requests'[r] # requests[r]

\* The request on connection r has been answered.
Answered(r) == requests[r].pc = "done"

\* The two addresses of the allow-list.
ListedAddresses ==
    {Str("wangjun6666666633@gmail.com"), Str("kche0224@student.monash.edu")}

\* The values JavaScript treats as false in a condition.
FalsyValues == {Undefined, Null, Str(""), Num("0"), Bool("false")}

RequiredFields == {"title", "start", "remindAt", "createdBy"}

\* Every provider call was made for an allow-listed address.
OnlyListedSent == \A i \in DOMAIN sent : sent[i].to \in ListedAddresses

----------------------------------------------------------------------------
(* C1 *)

\* C1 as stated: every /send-email request that carries an email value not
\* in the allow-list is answered 403, whatever its message (absent and empty
\* included), and the provider is not invoked for it.
C1_NotListedAlways403 ==
    /\ \A r \in Reqs :
          (requests[r].kind = "sendEmail"
              /\ requests[r].body.email \notin FalsyValues
              /\ requests[r].body.email \notin ListedAddresses)
          => (Answered(r) /\ requests[r].resp.status = 403)
    /\ OnlyListedSent

\* C1 amended: a /send-email request whose email is present and non-empty but
\* not in the allow-list, and whose message is present and non-empty, is
\* answered 403 with the rejected address in the error; when the email or the
\* message is absent or empty the answer is 400 instead; in both cases the
\* provider is not invoked.
C1_NotListed403WhenComplete ==
    /\ \A r \in Reqs :
          (requests[r].kind = "sendEmail"
              /\ requests[r].body.email \notin ListedAddresses)
          => /\ Answered(r)
             /\ "ext" \notin DOMAIN requests[r]
             /\ requests[r].resp.json.success = FALSE
             /\ IF \/ requests[r].body.email \in FalsyValues
                   \/ requests[r].body.message \in FalsyValues
                THEN requests[r].resp.status = 400
                ELSE /\ requests[r].resp.status = 403
                     /\ requests[r].resp.json.error[2]
                            = requests[r].body.email.v
    /\ OnlyListedSent

C1_Witness ==
    \E r \in Reqs :
        /\ requests[r].kind = "sendEmail"
        /\ Answered(r)
        /\ requests[r].body.email = Str("KCHE0224@student.monash.edu")
        /\ requests[r].body.message = Str("hi")
        /\ requests[r].resp.status = 403

----------------------------------------------------------------------------
(* C2 *)

\* C2: every /send-email request whose body lacks email or message is
\* answered 400 with success:false, and no step in which such a request
\* arrives, and no later step of it, hands a message to the provider.
C2_MissingFields400 ==
    /\ [](\A r \in Reqs :
            (requests[r].kind = "sendEmail"
                /\ (requests[r].body.email = Undefined
                        \/ requests[r].body.message = Undefined))
            => /\ Answered(r)
               /\ requests[r].nresp = 1
               /\ requests[r].resp.status = 400
               /\ requests[r].resp.json.success = FALSE)
    /\ [][\A r \in Reqs :
            (Arrives(r)
                /\ requests'[r].kind = "sendEmail"
                /\ (requests'[r].body.email = Undefined
                        \/ requests'[r].body.message = Undefined))
            => sent' = sent]_vars
    /\ [](\A i \in DOMAIN sent :
            sent[i].to # Undefined /\ sent[i].text # Undefined)

C2_Witness ==
    \E r \in Reqs :
        /\ requests[r].kind = "sendEmail"
        /\ requests[r].body.email = Str("kche0224@student.monash.edu")
        /\ requests[r].body.message = Undefined
        /\ requests[r].resp.status = 400
        /\ Len(sent) > 0

----------------------------------------------------------------------------
(* C3 *)

\* C3: a step in which a /send-email request with an allow-listed email and a
\* non-empty message arrives appends exactly one message to the provider's
\* calls, with to = email, text = message and the fixed subject; every other
\* step (a callback with an error included) leaves the calls unchanged; so the
\* number of calls always equals the number of such requests.
C3_OneSendPerRequest ==
    /\ [](Len(sent) = accepted)
    /\ [][\A r \in Reqs :
            (Arrives(r) /\ requests'[r].kind = "sendEmail"
                /\ Wanted(requests'[r].body))
            => /\ Len(sent') = Len(sent) + 1
               /\ SubSeq(sent', 1, Len(sent)) = sent
               /\ sent'[Len(sent')].to = requests'[r].body.email
               /\ sent'[Len(sent')].text = requests'[r].body.message
               /\ sent'[Len(sent')].subject = "Library Contact Message"]_vars
    /\ [][(~ \E r \in Reqs :
              Arrives(r) /\ requests'[r].kind = "sendEmail"
                /\ Wanted(requests'[r].body))
            => sent' = sent]_vars

C3_Witness ==
    /\ Len(sent) = 2
    /\ sent[1] = sent[2]
    /\ \E r \in Reqs :
          /\ requests[r].kind = "sendEmail"
          /\ Answered(r)
          /\ requests[r].resp.status = 500

----------------------------------------------------------------------------
(* C4 *)

\* C4: every POST /events request whose body lacks title, start, remindAt or
\* createdBy is answered 400 without a call to the store, and no document of
\* the collection lacks one of these fields: none was created for it.
C4_MissingRequired400 ==
    /\ \A r \in Reqs :
          (requests[r].kind = "postEvent"
              /\ \E f \in RequiredFields : requests[r].body[f] = Undefined)
          => /\ Answered(r)
             /\ requests[r].resp.status = 400
             /\ "ext" \notin DOMAIN requests[r]
    /\ \A i \in DOMAIN events :
          \A f \in RequiredFields : events[i].data[f] # Undefined

C4_Witness ==
    /\ Len(events) = 1
    /\ \E r \in Reqs :
          /\ requests[r].kind = "postEvent"
          /\ requests[r].body.createdBy = Undefined
          /\ requests[r].body.title = Title
          /\ requests[r].resp.status = 400

----------------------------------------------------------------------------
(* C5 *)

\* C5 as stated: a POST /events request whose four required fields are all
\* present in the body, whatever their values, is not answered 400.
C5_PresenceOnly ==
    \A r \in Reqs :
        (requests[r].kind = "postEvent"
            /\ \A f \in RequiredFields : requests[r].body[f] # Undefined)
        => ~(Answered(r) /\ requests[r].resp.status = 400)

\* C5 amended: POST /events checks that the required fields are truthy and
\* nothing else: a request whose title, start, remindAt and createdBy are all
\* truthy, whatever their types or format, is not answered 400 and its
\* insertion is attempted; it is answered 400 exactly when a required field
\* is absent or falsy (an empty string, 0, false, null).
C5_TruthinessOnly ==
    \A r \in Reqs :
        requests[r].kind = "postEvent"
        => IF \E f \in RequiredFields : requests[r].body[f] \in FalsyValues
           THEN /\ Answered(r)
                /\ requests[r].resp.status = 400
                /\ "newEvent" \notin DOMAIN requests[r]
           ELSE /\ "newEvent" \in DOMAIN requests[r]
                /\ Answered(r) => /\ "ext" \in DOMAIN requests[r]
                                  /\ requests[r].resp.status \in {200, 500}

C5_Witness ==
    \E r \in Reqs :
        /\ requests[r].kind = "postEvent"
        /\ requests[r].body.start = Num("0")
        /\ requests[r].resp.status = 400
        /\ \E q \in Reqs :
              /\ requests[q].kind = "postEvent"
              /\ requests[q].body.start = StartMillis
              /\ Answered(q)
              /\ requests[q].resp.status = 200

----------------------------------------------------------------------------
(* C6 *)

\* The event object of a stored document: its id with its stored fields.
EventOf(doc) ==
    [id |-> doc.id, title |-> doc.data.title, start |-> doc.data.start,
     remindAt |-> doc.data.remindAt, createdBy |-> doc.data.createdBy,
     notes |-> doc.data.notes]

\* C6: a successful GET /api/events/:email returns exactly the events, id
\* merged with stored fields, of the documents stored when the store served
\* the query whose createdBy is the very string of the path parameter (case
\* included); a successful GET /api/events returns those of all documents
\* stored at that time.
C6_ReadsReturnStored ==
    \A r \in Reqs :
        (Answered(r) /\ requests[r].resp.status = 200)
        => /\ requests[r].kind = "getEventsByEmail"
              => requests[r].resp.json.events =
                    {EventOf(events[i]) :
                        i \in {j \in 1..requests[r].ext.readTime :
                            /\ events[j].data.createdBy.t = "string"
                            /\ events[j].data.createdBy.v
                                   = requests[r].email.v}}
           /\ requests[r].kind = "getEvents"
              => requests[r].resp.json.events =
                    {EventOf(events[i]) : i \in 1..requests[r].ext.readTime}

C6_Witness ==
    /\ Len(events) = 2
    /\ events[1].data.createdBy = Str("a@x.com")
    /\ events[2].data.createdBy = Str("A@x.com")
    /\ \E r \in Reqs :
          /\ requests[r].kind = "getEventsByEmail"
          /\ requests[r].email = Str("A@x.com")
          /\ Answered(r)
          /\ requests[r].resp.status = 200
          /\ requests[r].ext.readTime = 2
          /\ Cardinality(requests[r].resp.json.events) = 1
    /\ \E r \in Reqs :
          /\ requests[r].kind = "getEvents"
          /\ Answered(r)
          /\ requests[r].resp.status = 200
          /\ Cardinality(requests[r].resp.json.events) = 2

----------------------------------------------------------------------------
(* C7 *)

\* What a successful POST /events must hold once answered, given the notes
\* the stored event is to carry.
PostEventAnswer(r, notes) ==
    LET req == requests[r]
        event == [title |-> req.body.title, start |-> req.body.start,
                  remindAt |-> req.body.remindAt,
                  createdBy |-> req.body.createdBy, notes |-> notes]
    IN  /\ req.nresp = 1
        /\ req.resp.json.success = TRUE
        /\ req.resp.json.event = event
        /\ req.resp.json.id.t = "string"
        /\ req.resp.json.id.v # ""
        /\ \E i \in DOMAIN events :
              events[i] = [id |-> req.resp.json.id, data |-> event]

\* C7 as stated: a successful POST /events stores and returns the supplied
\* title, start, remindAt and createdBy, with notes equal to the supplied
\* notes, or "" when notes is omitted.
C7_NotesAsSupplied ==
    \A r \in Reqs :
        (requests[r].kind = "postEvent" /\ Answered(r)
            /\ requests[r].resp.status = 200)
        => PostEventAnswer(r,
              IF requests[r].body.notes = Undefined
              THEN Str("") ELSE requests[r].body.notes)

\* C7 amended: as C7, with notes equal to the supplied notes when they are
\* truthy, and "" when notes is omitted or falsy (0, false, null, "").
C7_NotesDefaulted ==
    \A r \in Reqs :
        (requests[r].kind = "postEvent" /\ Answered(r)
            /\ requests[r].resp.status = 200)
        => PostEventAnswer(r,
              IF requests[r].body.notes \in FalsyValues
              THEN Str("") ELSE requests[r].body.notes)

C7_Witness ==
    /\ \E r \in Reqs :
          /\ requests[r].kind = "postEvent"
          /\ Answered(r)
          /\ requests[r].resp.status = 200
          /\ requests[r].body.notes = Num("0")
          /\ requests[r].resp.json.event.notes = Str("")
    /\ \E r \in Reqs :
          /\ requests[r].kind = "postEvent"
          /\ Answered(r)
          /\ requests[r].resp.status = 200
          /\ requests[r].body.notes = Str("bring slides")

----------------------------------------------------------------------------
(* C8 *)

\* Connection r is answered in this step with a successful POST /events.
PostEventSucceeds(r) ==
    /\ requests[r].kind = "postEvent"
    /\ requests[r].pc = "pending"
    /\ requests'[r].pc = "done"
    /\ requests'[r].resp.status = 200

\* C8: in every step every document of the collection keeps its place, its id
\* and its fields; the collection changes only in a step that answers a POST
\* /events with success, and then by exactly one new document, the one that
\* request returns; the steps of the two GET routes and of /send-email leave
\* the collection unchanged.
C8_EventsImmutable ==
    [][/\ Len(events') >= Len(events)
       /\ \A i \in DOMAIN events : events'[i] = events[i]
       /\ events' # events
            => /\ Len(events') = Len(events) + 1
               /\ \E r \in Reqs :
                     /\ PostEventSucceeds(r)
                     /\ events'[Len(events')].id = requests'[r].resp.json.id
                     /\ events'[Len(events')].data
                            = requests'[r].resp.json.event
       /\ (\E r \in Reqs : PostEventSucceeds(r)) => events' # events]_vars

C8_Witness ==
    /\ Len(events) = 2
    /\ \E r \in Reqs :
          /\ requests[r].kind = "getEvents"
          /\ Answered(r)
          /\ requests[r].resp.status = 200
          /\ requests[r].ext.readTime = 1
    /\ \E r \in Reqs :
          /\ requests[r].kind = "postEvent"
          /\ Answered(r)
          /\ requests[r].resp.status = 200
          /\ requests[r].resp.json.id = events[2].id

----------------------------------------------------------------------------
(* C9 *)

\* C9: a request whose store operation or provider send failed has been
\* answered exactly once, with 500 and {success:false, error:<the message of
\* the failure>}; and a request answered 500 is one whose external call
\* failed.
C9_FailedCallFailedRequest ==
    \A r \in Reqs :
        /\ requests[r].nresp <= 1
        /\ ("ext" \in DOMAIN requests[r] /\ ~requests[r].ext.ok)
              => /\ Answered(r)
                 /\ requests[r].nresp = 1
                 /\ requests[r].resp =
                        [status |-> 500,
                         json |-> [success |-> FALSE,
                                   error |-> requests[r].ext.error.message]]
        /\ (Answered(r) /\ requests[r].resp.json.success)
              => /\ "ext" \in DOMAIN requests[r]
                 /\ requests[r].ext.ok
                 /\ requests[r].resp.status = 200
        /\ Answered(r) => requests[r].nresp = 1

C9_Witness ==
    /\ \E r \in Reqs :
          /\ requests[r].kind = "sendEmail"
          /\ Answered(r)
          /\ requests[r].resp.status = 500
          /\ ~requests[r].ext.ok
          /\ requests[r].resp.json.error = "Forbidden"
    /\ \E r \in Reqs :
          /\ requests[r].kind = "postEvent"
          /\ Answered(r)
          /\ requests[r].resp.status = 500
          /\ ~requests[r].ext.ok
          /\ requests[r].resp.json.error = "DEADLINE_EXCEEDED"

----------------------------------------------------------------------------
(* C10 *)

\* The input of the request on connection r.
InputOf(r) ==
    IF requests[r].kind \in {"sendEmail", "postEvent"} THEN requests[r].body
    ELSE IF requests[r].kind = "getEventsByEmail" THEN requests[r].email
    ELSE Undefined

\* C10: the allow-list is what startup made it; the documents of the
\* collection have pairwise distinct ids; two requests answered with a
\* successful POST /events, identical bodies included, hold different ids,
\* each the id of a document of its own; and two answered requests of the
\* same route with the same input and the same result of the external call
\* carry the same response.
C10_Independent ==
    /\ authorizedEmails = AllowList
    /\ \A i, j \in DOMAIN events :
          i # j => events[i].id # events[j].id
    /\ \A r, q \in Reqs :
          (r # q
              /\ requests[r].kind = "postEvent" /\ requests[q].kind = "postEvent"
              /\ Answered(r) /\ Answered(q)
              /\ requests[r].resp.status = 200 /\ requests[q].resp.status = 200)
          => /\ requests[r].resp.json.id # requests[q].resp.json.id
             /\ \E i, j \in DOMAIN events :
                   /\ i # j
                   /\ events[i] = [id |-> requests[r].resp.json.id,
                                   data |-> requests[r].resp.json.event]
                   /\ events[j] = [id |-> requests[q].resp.json.id,
                                   data |-> requests[q].resp.json.event]
    /\ \A r, q \in Reqs :
          (Answered(r) /\ Answered(q)
              /\ requests[r].kind = requests[q].kind
              /\ InputOf(r) = InputOf(q)
              /\ ("ext" \in DOMAIN requests[r]) = ("ext" \in DOMAIN requests[q])
              /\ ("ext" \in DOMAIN requests[r]
                    => requests[r].ext = requests[q].ext))
          => requests[r].resp = requests[q].resp

C10_Witness ==
    /\ requests["r1"].kind = "postEvent"
    /\ requests["r2"].kind = "postEvent"
    /\ Answered("r1") /\ Answered("r2")
    /\ requests["r1"].body = requests["r2"].body
    /\ requests["r1"].resp.status = 200
    /\ requests["r2"].resp.status = 200
    /\ Len(events) = 2

====
